---- MODULE Spec2Model ----
(***************************************************************************)
(* matrix-websockets-proxy: the two HTTP handlers that bridge the Matrix   *)
(* /sync long-poll API to a websocket (/stream) and to an EventSource      *)
(* stream (/events).  One connection is modelled: the request, the        *)
(* handler's position, the MatrixClient session, the ResponseWriter, the   *)
(* websocket and the calls made to the upstream homeserver.                *)
(*                                                                         *)
(* Go strings that the code slices (the Authorization header) are          *)
(* sequences of one-character strings; s[a:b] is SubSeq(s, a+1, b).        *)
(* Opaque strings (cursors, filters, bodies) are TLA+ strings.             *)
(***************************************************************************)
EXTENDS Integers, Sequences, FiniteSets, TLC

VARIABLES
    pc,                 \* position of the handler goroutine
    req,                \* the inbound request (method, headers, query)
    client,             \* the proxy.MatrixClient of the connection
    rw,                 \* the http.ResponseWriter
    upstream,           \* calls issued to the homeserver, in order
    content,            \* serveEventSource: local `content` / serveStream: `msg`
    err,                \* local `err` of the handler
    connectionExists,   \* serveEventSource: flag shared with the observer
    observer,           \* position of the close-observer goroutine
    clientClosed,       \* the remote end has closed the connection
    ws,                 \* the websocket connection of /stream
    inbound,            \* number of inbound websocket frames read so far
    presenceResults,    \* outcomes of the handshake's presence call
    returned,           \* results the homeserver gave to the sync calls, in order
    closedAt            \* events written when the observer recorded the
                        \* closure; -1 before

vars == <<pc, req, client, rw, upstream, content, err, connectionExists,
          observer, clientClosed, ws, inbound, presenceResults, returned,
          closedAt>>

----------------------------------------------------------------------------
(* Bounds of the model *)

\* upstream sync calls one connection may issue
MaxSyncs == 3

\* inbound websocket frames one connection may read
MaxInbound == 1

----------------------------------------------------------------------------
(* HTTP statuses used by the handlers *)

StatusOK == 200

StatusBadRequest == 400

StatusForbidden == 403

StatusMethodNotAllowed == 405

StatusInternalServerError == 500

\* http.StatusText
StatusText(status) ==
    CASE status = StatusMethodNotAllowed -> "Method Not Allowed"
      [] status = StatusInternalServerError -> "Internal Server Error"
      [] status = StatusBadRequest -> "Bad Request"
      [] status = StatusForbidden -> "Forbidden"
      [] OTHER -> ""

----------------------------------------------------------------------------
(* Request inputs *)

\* the string "Bearer " the handlers compare against
Bearer == <<"B", "e", "a", "r", "e", "r", " ">>

HdrShort == <<"a", "b", "c">>

HdrRaw == <<"s", "e", "c", "r", "e", "t">>

HdrBasic == <<"B", "a", "s", "i", "c", " ", "x", "y">>

HdrBearer == Bearer \o <<"t", "A">>

AuthorizationValues == {<<>>, HdrShort, HdrRaw, HdrBasic, HdrBearer}

AccessTokenValues == {<<>>, <<"t", "B">>}

Methods == {"GET", "POST"}

SinceValues == {"", "q0"}

LastEventIdValues == {"", "e0"}

PresenceValues == {"", "offline"}

FilterValues == {"f0"}

\* the sub-protocols a client may offer in Sec-WebSocket-Protocol
ProtocolValues == {{}, {"m.json"}}

NoRequest ==
    [endpoint |-> "", method |-> "", authorization |-> <<>>,
     access_token |-> <<>>, since |-> "", last_event_id |-> "",
     filter |-> "", presence |-> "", flusher |-> TRUE, protocols |-> {}]

StreamRequests ==
    [endpoint : {"stream"}, method : Methods,
     authorization : AuthorizationValues, access_token : AccessTokenValues,
     since : SinceValues, last_event_id : {""}, filter : FilterValues,
     presence : PresenceValues, flusher : {TRUE},
     protocols : ProtocolValues]

EventSourceRequests ==
    [endpoint : {"events"}, method : Methods,
     authorization : AuthorizationValues, access_token : AccessTokenValues,
     since : SinceValues, last_event_id : LastEventIdValues,
     filter : FilterValues, presence : PresenceValues, flusher : BOOLEAN,
     protocols : {{}}]

----------------------------------------------------------------------------
(* JSON values and /sync payloads *)

JNull == [t |-> "null", v |-> ""]

JStr(s) == [t |-> "str", v |-> s]

JNum(n) == [t |-> "num", v |-> n]

JObj(o) == [t |-> "obj", v |-> o]

\* the fields of PopNextBatch's SyncResponse struct that are interface{}
InterfaceFields ==
    {"account_data", "to_device", "device_lists", "presence", "rooms", "groups"}

\* all JSON keys of the SyncResponse struct
StructFields ==
    InterfaceFields \cup {"device_one_time_keys_count", "next_batch"}

\* a /sync response body with cursor nb and the other top-level fields rest
Payload(nb, rest) ==
    [k \in DOMAIN rest \cup {"next_batch"} |->
        IF k = "next_batch" THEN JStr(nb) ELSE rest[k]]

RestUnknown ==
    [k \in {"rooms", "org.example.extra"} |->
        IF k = "rooms" THEN JObj("{join}") ELSE JNum("7")]

RestOtkObject ==
    [k \in {"rooms", "device_one_time_keys_count"} |->
        IF k = "rooms" THEN JObj("{join}") ELSE JObj("{signed_curve25519:50}")]

RestAllKnown ==
    [k \in StructFields \ {"next_batch"} |->
        IF k = "device_one_time_keys_count" THEN JNum("50")
        ELSE IF k = "presence" THEN JNull ELSE JObj(k)]

Payloads ==
    {Payload("s1", RestUnknown), Payload("s2", RestOtkObject),
     Payload("s1", RestAllKnown)}

NoPayload == [k \in {} |-> JNull]

\* a Go []byte holding a JSON object; nil is the nil slice
Bytes(obj) == [nil |-> FALSE, obj |-> obj]

NilBytes == [nil |-> TRUE, obj |-> NoPayload]

----------------------------------------------------------------------------
(* Results of one MatrixClient.Sync call *)

SyncOk(p) ==
    [kind |-> "ok", payload |-> p, status |-> 0, ctype |-> "", body |-> ""]

\* *proxy.MatrixError: a structured error of the homeserver, wrapping HttpError
SyncMatrixError ==
    [kind |-> "matrix", payload |-> NoPayload, status |-> 403,
     ctype |-> "application/json", body |-> "{errcode:M_FORBIDDEN}"]

\* *proxy.HttpError: a failed response without a structured body
SyncHttpError ==
    [kind |-> "http", payload |-> NoPayload, status |-> 502,
     ctype |-> "text/html", body |-> "<h1>Bad Gateway</h1>"]

\* any other error value
SyncOtherError ==
    [kind |-> "other", payload |-> NoPayload, status |-> 0, ctype |-> "",
     body |-> "dial tcp: connection refused"]

\* the error json.Unmarshal returns inside PopNextBatch
UnmarshalTypeError ==
    [kind |-> "other", payload |-> NoPayload, status |-> 0, ctype |-> "",
     body |-> "json: cannot unmarshal object into Go struct field"]

\* the error upgrader.Upgrade returns when the handshake fails
HandshakeError ==
    [kind |-> "other", payload |-> NoPayload, status |-> 0, ctype |-> "",
     body |-> "websocket: handshake failed"]

\* the nil error
NoError ==
    [kind |-> "ok", payload |-> NoPayload, status |-> 0, ctype |-> "",
     body |-> ""]

IsError(e) == e.kind # "ok"

SyncFailures == {SyncMatrixError, SyncHttpError, SyncOtherError}

SyncResults == {SyncOk(p) : p \in Payloads} \cup SyncFailures

----------------------------------------------------------------------------
(* Credential and cursor resolution *)

\* accessToken := Header.Get("Authorization"); if accessToken != "" { if
\* accessToken[0:6] == "Bearer " { accessToken = accessToken[7:] } } else {
\* accessToken = Query().Get("access_token") }.  The slice [0:6] panics on a
\* header shorter than six bytes.
ResolveAccessToken(authorization, access_token) ==
    IF authorization # <<>>
    THEN IF Len(authorization) < 6
         THEN [fault |-> TRUE, token |-> <<>>]
         ELSE IF SubSeq(authorization, 1, 6) = Bearer
              THEN IF Len(authorization) < 7
                   THEN [fault |-> TRUE, token |-> <<>>]
                   ELSE [fault |-> FALSE,
                         token |-> SubSeq(authorization, 8, Len(authorization))]
              ELSE [fault |-> FALSE, token |-> authorization]
    ELSE [fault |-> FALSE, token |-> access_token]

\* cursor resolution with the precedence reversed: since wins
ResolveEventSourceCursorSinceFirst(last_event_id, since) ==
    IF since = "" THEN last_event_id ELSE since

\* serveEventSource: NextSyncBatch = last-event-id, or since when that is ""
ResolveEventSourceCursor(last_event_id, since) ==
    IF last_event_id = "" THEN since ELSE last_event_id

\* serveStream: NextSyncBatch = since
ResolveStreamCursor(last_event_id, since) == since

----------------------------------------------------------------------------
(* PopNextBatch *)

\* A payload is the decoded JSON object: its top-level keys and their values.
\* json.Unmarshal into SyncResponse fails when a typed field has another type
\* (DeviceOTKCount is an int, NextBatch a string; null leaves the zero value)
UnmarshalFails(in) ==
    \/ /\ "device_one_time_keys_count" \in DOMAIN in
       /\ in["device_one_time_keys_count"].t \notin {"num", "null"}
    \/ /\ "next_batch" \in DOMAIN in
       /\ in["next_batch"].t \notin {"str", "null"}

\* the value json.Marshal writes for struct field k after NextBatch = ""
MarshalField(in, k) ==
    IF k = "next_batch" THEN JStr("")
    ELSE IF k = "device_one_time_keys_count"
         THEN IF k \in DOMAIN in /\ in[k].t = "num" THEN in[k] ELSE JNum("0")
         ELSE IF k \in DOMAIN in THEN in[k] ELSE JNull

\* PopNextBatch(in []byte) (out []byte, err error)
PopNextBatch(in) ==
    IF in.nil \/ UnmarshalFails(in.obj)
    THEN [out |-> NilBytes, err |-> UnmarshalTypeError]
    ELSE [out |-> Bytes([k \in StructFields |-> MarshalField(in.obj, k)]),
          err |-> NoError]

----------------------------------------------------------------------------
(* http.ResponseWriter *)

HeaderNames ==
    {"Content-Type", "Cache-Control", "Connection",
     "Access-Control-Allow-Origin", "X-Content-Type-Options"}

NoHeaders == [h \in HeaderNames |-> ""]

NewResponseWriter ==
    [header |-> NoHeaders, wroteHeader |-> FALSE, status |-> 0,
     sent |-> NoHeaders, body |-> <<>>, flushed |-> 0]

Chunk(line, text, bytes) == [line |-> line, text |-> text, bytes |-> bytes]

SetHeader(w, name, value) == [w EXCEPT !.header[name] = value]

\* the status line and the headers go out once, with the first WriteHeader
WriteHeader(w, status) ==
    IF w.wroteHeader THEN w
    ELSE [w EXCEPT !.wroteHeader = TRUE, !.status = status, !.sent = w.header]

Write(w, chunk) ==
    LET w1 == WriteHeader(w, StatusOK)
    IN  [w1 EXCEPT !.body = Append(@, chunk)]

Flush(w) ==
    LET w1 == WriteHeader(w, StatusOK)
    IN  [w1 EXCEPT !.flushed = Len(w1.body)]

\* http.Error(w, text, status)
HttpErrorText(w, text, status) ==
    LET w1 == SetHeader(w, "Content-Type", "text/plain; charset=utf-8")
        w2 == SetHeader(w1, "X-Content-Type-Options", "nosniff")
    IN  Write(WriteHeader(w2, status), Chunk("body", text, NilBytes))

\* httpError(w, status)
httpError(w, status) == HttpErrorText(w, StatusText(status), status)

\* handleHttpError without the Content-Type line
handleHttpErrorKeepType(w, errp) ==
    Write(WriteHeader(w, errp.status), Chunk("body", errp.body, NilBytes))

\* handleHttpError(w, errp)
handleHttpError(w, errp) ==
    LET w1 == SetHeader(w, "Content-Type", errp.ctype)
    IN  Write(WriteHeader(w1, errp.status), Chunk("body", errp.body, NilBytes))

\* the default branch answering with the error's own text
WriteSyncErrorLeak(w, e) ==
    IF e.kind \in {"matrix", "http"}
    THEN handleHttpError(w, e)
    ELSE HttpErrorText(w, e.body, StatusInternalServerError)

\* the switch err.(type) of both handlers
WriteSyncError(w, e) ==
    IF e.kind \in {"matrix", "http"}
    THEN handleHttpError(w, e)
    ELSE httpError(w, StatusInternalServerError)

\* the four header lines serveEventSource sets before the first sync
EventSourceHeaders(w) ==
    LET w1 == SetHeader(w, "Content-Type", "text/event-stream")
        w2 == SetHeader(w1, "Cache-Control", "no-cache")
        w3 == SetHeader(w2, "Connection", "keep-alive")
    IN  SetHeader(w3, "Access-Control-Allow-Origin", "*")

\* the three Fprintf of one event: id, event name, data
WriteEvent(w, id, data) ==
    LET w1 == Write(w, Chunk("id", id, NilBytes))
        w2 == Write(w1, Chunk("event", "sync", NilBytes))
    IN  Write(w2, Chunk("data", "", data))

----------------------------------------------------------------------------
(* proxy.MatrixClient: the session and its upstream calls *)

NoClient ==
    [AccessToken |-> <<>>, NextSyncBatch |-> "", Filter |-> "", Presence |-> ""]

\* proxy.NewClient(upstreamURL, accessToken)
NewClient(accessToken) == [NoClient EXCEPT !.AccessToken = accessToken]

\* the request MatrixClient.Sync(waitForEvents) sends
SyncCall(c, waitForEvents) ==
    [call |-> "sync", access_token |-> c.AccessToken, since |-> c.NextSyncBatch,
     filter |-> c.Filter, presence |-> c.Presence, wait |-> waitForEvents]

\* the request MatrixClient.UpdatePresence(value) sends
PresenceCall(c, value) ==
    [call |-> "presence", access_token |-> c.AccessToken, since |-> "",
     filter |-> "", presence |-> value, wait |-> FALSE]

\* Sync that does not store the cursor it got
AfterSyncNoStore(c, result) == c

\* the session after Sync has returned result: a success stores the cursor
AfterSync(c, result) ==
    IF IsError(result) THEN c
    ELSE [c EXCEPT !.NextSyncBatch = result.payload["next_batch"].v]

\* the ([]byte, error) pair Sync returns
SyncContent(result) ==
    IF IsError(result) THEN NilBytes ELSE Bytes(result.payload)

SyncCalls == SelectSeq(upstream, LAMBDA u : u.call = "sync")

PresenceCalls == SelectSeq(upstream, LAMBDA u : u.call = "presence")

LongPolls == SelectSeq(upstream, LAMBDA u : u.call = "sync" /\ u.wait)

----------------------------------------------------------------------------
(* The websocket of /stream *)

NewWs ==
    [upgraded |-> FALSE, subprotocol |-> "", frames |-> <<>>,
     started |-> FALSE, closed |-> FALSE]

\* Upgrader{Subprotocols: []string{"m.json"}}: the sub-protocol of the
\* upgraded connection is m.json when the client offers it, none otherwise
NegotiateSubprotocol(offered) ==
    IF "m.json" \in offered THEN "m.json" ELSE ""

\* the statuses upgrader.Upgrade answers with when it refuses the handshake
\* before taking over the connection: a malformed handshake, an origin that
\* is not allowed, a connection that cannot be taken over
UpgradeRefusals ==
    {StatusBadRequest, StatusForbidden, StatusInternalServerError}

\* the outcomes of upgrader.Upgrade(w, r, nil): the upgraded connection, a
\* refusal answered through w, or a failure after the connection was taken
\* over, where nothing is written through w (status 0)
UpgradeOutcomes(offered) ==
    {[ok |-> TRUE, status |-> 0,
      subprotocol |-> NegotiateSubprotocol(offered)]}
    \cup {[ok |-> FALSE, status |-> s, subprotocol |-> ""] :
                s \in UpgradeRefusals \cup {0}}

----------------------------------------------------------------------------
Init ==
    /\ pc = "idle"
    /\ req = NoRequest
    /\ client = NoClient
    /\ rw = NewResponseWriter
    /\ upstream = <<>>
    /\ content = NilBytes
    /\ err = NoError
    /\ connectionExists = TRUE
    /\ observer = "none"
    /\ clientClosed = FALSE
    /\ ws = NewWs
    /\ inbound = 0
    /\ presenceResults = <<>>
    /\ returned = <<>>
    /\ closedAt = -1

----------------------------------------------------------------------------
(* Steps shared by both handlers *)

\* the method test left out
MethodAllowedAny(method) == TRUE

\* if r.Method != "GET" { httpError(w, 405); return }
MethodAllowed(method) == method = "GET"

\* the error branch of serveStream without its return
StreamAfterSyncNoReturn(e) == "st_upgrade"

\* the handler's position after an initial sync on /stream returned e
StreamAfterSync(e) == IF IsError(e) THEN "done" ELSE "st_upgrade"

\* the error branch of serveEventSource without its return: the loop goes on
EventSourceAfterSyncRetry(e) == "ev_check"

\* the handler's position after a sync on /events returned e
EventSourceAfterSync(e) == IF IsError(e) THEN "done" ELSE "ev_check"

\* a failed upgrade without its return
StreamAfterUpgradeNoReturn(ok) == "st_send"

\* the handler's position after upgrader.Upgrade: if err != nil { return }
StreamAfterUpgrade(ok) == IF ok THEN "st_send" ELSE "done"

\* the id taken from the content after PopNextBatch has emptied its cursor
EventIdAfterPop(c) == ""

\* the id of one event: fmt.Fprintf(rw, "id: %s\n", client.NextSyncBatch)
EventId(c) == c.NextSyncBatch

\* one pass of serveEventSource's loop body from the id line to the Flush
EmitEvent(w, c, bytes) ==
    Flush(WriteEvent(w, EventId(c), PopNextBatch(bytes).out))

\* the values the read of connectionExists at the loop's test may yield.  The
\* observer goroutine writes the flag and the loop reads it with no
\* synchronisation between the two (a data race): a read that follows the
\* write may observe the new value or still the one from before it.
ReadConnectionExists ==
    IF connectionExists THEN {TRUE} ELSE {TRUE, FALSE}

\* the handler's position after if !connectionExists { return }
EventSourceAfterCheck(exists) == IF exists THEN "ev_call" ELSE "done"

----------------------------------------------------------------------------
(* serveEventSource: GET /events *)

\* from the entry of the handler to the first client.Sync(false)
ServeEventSourceBegin ==
    /\ pc = "idle"
    /\ \E r \in EventSourceRequests :
        LET tok == ResolveAccessToken(r.authorization, r.access_token)
            c   == [NewClient(tok.token) EXCEPT
                        !.Filter = r.filter,
                        !.Presence = r.presence,
                        !.NextSyncBatch =
                            ResolveEventSourceCursor(r.last_event_id, r.since)]
        IN  /\ req' = r
            /\ IF ~MethodAllowed(r.method)
               THEN /\ rw' = httpError(rw, StatusMethodNotAllowed)
                    /\ pc' = "done"
                    /\ UNCHANGED <<client, upstream, observer>>
               ELSE IF ~r.flusher
               THEN /\ rw' = HttpErrorText(rw, "Streaming unsupported!",
                                           StatusInternalServerError)
                    /\ pc' = "done"
                    /\ UNCHANGED <<client, upstream, observer>>
               ELSE IF tok.fault
               THEN /\ pc' = "panicked"
                    /\ observer' = "waiting"
                    /\ UNCHANGED <<client, upstream, rw>>
               ELSE /\ observer' = "waiting"
                    /\ client' = c
                    /\ rw' = EventSourceHeaders(rw)
                    /\ upstream' = Append(upstream, SyncCall(c, FALSE))
                    /\ pc' = "ev_sync"
    /\ UNCHANGED <<content, err, connectionExists, clientClosed, ws, inbound,
                   presenceResults, returned,
                   closedAt>>

\* client.Sync returns; the loop body runs up to the Flush
EventSourceSyncReturn ==
    /\ pc = "ev_sync"
    /\ \E result \in SyncResults :
        LET c   == AfterSync(client, result)
            got == SyncContent(result)
            pop == PopNextBatch(got)
        IN  /\ returned' = Append(returned, result)
            /\ client' = c
            /\ pc' = EventSourceAfterSync(result)
            /\ IF pc' = "done"
               THEN /\ rw' = WriteSyncError(rw, result)
                    /\ content' = got
                    /\ err' = result
               ELSE /\ rw' = EmitEvent(rw, c, got)
                    /\ content' = pop.out
                    /\ err' = pop.err
    /\ UNCHANGED <<req, upstream, connectionExists, observer, clientClosed, ws,
                   inbound, presenceResults,
                   closedAt>>

\* if !connectionExists { return }, on the value the racy read yields.  The
\* model's horizon ends at this test: a loop that has issued MaxSyncs sync
\* calls goes on only to return.
EventSourceCheck ==
    /\ pc = "ev_check"
    /\ \E exists \in ReadConnectionExists :
        /\ exists => Len(SyncCalls) < MaxSyncs
        /\ pc' = EventSourceAfterCheck(exists)
    /\ UNCHANGED <<req, client, rw, upstream, content, err, connectionExists,
                   observer, clientClosed, ws, inbound, presenceResults,
                   returned,
                   closedAt>>

\* content, err = client.Sync(true): the long-poll is issued
EventSourceCall ==
    /\ pc = "ev_call"
    /\ upstream' = Append(upstream, SyncCall(client, TRUE))
    /\ pc' = "ev_sync"
    /\ UNCHANGED <<req, client, rw, content, err, connectionExists, observer,
                   clientClosed, ws, inbound, presenceResults, returned,
                   closedAt>>

\* the remote end closes the connection while the handler runs
ClientClose ==
    /\ pc \notin {"idle", "done", "panicked"}
    /\ ~clientClosed
    /\ clientClosed' = TRUE
    /\ UNCHANGED <<pc, req, client, rw, upstream, content, err,
                   connectionExists, observer, ws, inbound, presenceResults,
                   returned,
                   closedAt>>

\* go func() { <-notify; connectionExists = false }()
Observer ==
    /\ observer = "waiting"
    /\ clientClosed
    /\ connectionExists' = FALSE
    /\ observer' = "done"
    /\ closedAt' = Len(SelectSeq(rw.body, LAMBDA ch : ch.line = "data"))
    /\ UNCHANGED <<pc, req, client, rw, upstream, content, err, clientClosed,
                   ws, inbound, presenceResults, returned>>

----------------------------------------------------------------------------
(* serveStream: GET /stream *)

\* from the entry of the handler to client.UpdatePresence(presence)
ServeStreamBegin ==
    /\ pc = "idle"
    /\ \E r \in StreamRequests :
        LET tok == ResolveAccessToken(r.authorization, r.access_token)
            c   == [NewClient(tok.token) EXCEPT
                        !.NextSyncBatch =
                            ResolveStreamCursor(r.last_event_id, r.since),
                        !.Filter = r.filter]
        IN  /\ req' = r
            /\ IF ~MethodAllowed(r.method)
               THEN /\ rw' = httpError(rw, StatusMethodNotAllowed)
                    /\ pc' = "done"
                    /\ UNCHANGED <<client, upstream>>
               ELSE IF tok.fault
               THEN /\ pc' = "panicked"
                    /\ UNCHANGED <<client, upstream, rw>>
               ELSE /\ client' = c
                    /\ upstream' = Append(upstream, PresenceCall(c, r.presence))
                    /\ pc' = "st_presence"
                    /\ UNCHANGED rw
    /\ UNCHANGED <<content, err, connectionExists, observer, clientClosed, ws,
                   inbound, presenceResults, returned,
                   closedAt>>

\* a failed presence update treated as fatal: 500 and no sync
StreamPresenceReturnFatal ==
    /\ pc = "st_presence"
    /\ \E ok \in BOOLEAN :
        /\ presenceResults' = Append(presenceResults, ok)
        /\ IF ok
           THEN /\ upstream' = Append(upstream, SyncCall(client, FALSE))
                /\ pc' = "st_sync"
                /\ UNCHANGED rw
           ELSE /\ rw' = httpError(rw, StatusInternalServerError)
                /\ pc' = "done"
                /\ UNCHANGED upstream
    /\ UNCHANGED <<req, client, content, err, connectionExists, observer,
                   clientClosed, ws, inbound, returned,
                   closedAt>>

\* UpdatePresence returns (its failure is only logged); client.Sync(false)
StreamPresenceReturn ==
    /\ pc = "st_presence"
    /\ \E ok \in BOOLEAN :
        presenceResults' = Append(presenceResults, ok)
    /\ upstream' = Append(upstream, SyncCall(client, FALSE))
    /\ pc' = "st_sync"
    /\ UNCHANGED <<req, client, rw, content, err, connectionExists, observer,
                   clientClosed, ws, inbound, returned,
                   closedAt>>

\* msg, err := client.Sync(false) returns; on an error the response is written
StreamSyncReturn ==
    /\ pc = "st_sync"
    /\ \E result \in SyncResults :
        /\ returned' = Append(returned, result)
        /\ client' = AfterSync(client, result)
        /\ content' = SyncContent(result)
        /\ err' = result
        /\ pc' = StreamAfterSync(result)
        /\ rw' = IF IsError(result) THEN WriteSyncError(rw, result) ELSE rw
    /\ UNCHANGED <<req, upstream, connectionExists, observer, clientClosed, ws,
                   inbound, presenceResults,
                   closedAt>>

\* ws, err := upgrader.Upgrade(w, r, nil); if err != nil { return }
StreamUpgrade ==
    /\ pc = "st_upgrade"
    /\ \E out \in UpgradeOutcomes(req.protocols) :
        /\ pc' = StreamAfterUpgrade(out.ok)
        /\ IF out.ok
           THEN /\ ws' = [ws EXCEPT !.upgraded = TRUE,
                                    !.subprotocol = out.subprotocol]
                /\ err' = NoError
                /\ UNCHANGED rw
           ELSE /\ rw' = IF out.status = 0 THEN rw
                         ELSE httpError(rw, out.status)
                /\ err' = HandshakeError
                /\ UNCHANGED ws
    /\ UNCHANGED <<req, client, upstream, content, connectionExists,
                   observer, clientClosed, inbound, presenceResults, returned,
                   closedAt>>

\* the handshake without the SendMessage of the payload already fetched
StreamSendMessageSkipped ==
    /\ pc = "st_send"
    /\ pc' = "st_start"
    /\ UNCHANGED <<req, client, rw, upstream, content, err, connectionExists,
                   observer, clientClosed, ws, inbound, presenceResults,
                   returned,
                   closedAt>>

\* c := proxy.New(client, ws); c.SendMessage(msg)
StreamSendMessage ==
    /\ pc = "st_send"
    /\ ws' = [ws EXCEPT !.frames = Append(@, content)]
    /\ pc' = "st_start"
    /\ UNCHANGED <<req, client, rw, upstream, content, err, connectionExists,
                   observer, clientClosed, inbound, presenceResults, returned,
                   closedAt>>

\* c.Start(): the bridge loop and the reader of inbound frames begin
StreamStart ==
    /\ pc = "st_start"
    /\ ws' = [ws EXCEPT !.started = TRUE]
    /\ pc' = "st_loop"
    /\ UNCHANGED <<req, client, rw, upstream, content, err, connectionExists,
                   observer, clientClosed, inbound, presenceResults, returned,
                   closedAt>>

\* the bridge loop at an iteration boundary: stop when cancelled, else long-poll
StreamLoopPoll ==
    /\ pc = "st_loop"
    /\ IF ws.closed
       THEN /\ pc' = "done"
            /\ UNCHANGED upstream
       ELSE /\ Len(SyncCalls) < MaxSyncs
            /\ upstream' = Append(upstream, SyncCall(client, TRUE))
            /\ pc' = "st_poll"
    /\ UNCHANGED <<req, client, rw, content, err, connectionExists, observer,
                   clientClosed, ws, inbound, presenceResults, returned,
                   closedAt>>

\* the long-poll returns: a success is sent as one frame, a failure closes
StreamLoopReturn ==
    /\ pc = "st_poll"
    /\ \E result \in SyncResults :
        /\ returned' = Append(returned, result)
        /\ client' = AfterSync(client, result)
        /\ content' = SyncContent(result)
        /\ err' = result
        /\ IF IsError(result)
           THEN /\ ws' = [ws EXCEPT !.closed = TRUE]
                /\ pc' = "done"
           ELSE /\ ws' = [ws EXCEPT !.frames = Append(@, SyncContent(result))]
                /\ pc' = "st_loop"
    /\ UNCHANGED <<req, rw, upstream, connectionExists, observer, clientClosed,
                   inbound, presenceResults,
                   closedAt>>

\* the reader gets one inbound frame: a presence instruction triggers
\* UpdatePresence, a frame that does not parse is logged and discarded
StreamInbound ==
    /\ pc \in {"st_loop", "st_poll"}
    /\ ~ws.closed
    /\ inbound < MaxInbound
    /\ inbound' = inbound + 1
    /\ \E frame \in {"presence", "garbage"} :
        upstream' = IF frame = "presence"
                    THEN Append(upstream, PresenceCall(client, "online"))
                    ELSE upstream
    /\ UNCHANGED <<pc, req, client, rw, content, err, connectionExists,
                   observer, clientClosed, ws, presenceResults, returned,
                   closedAt>>

\* the reader sees that the remote end closed the websocket
StreamRemoteClose ==
    /\ pc \in {"st_loop", "st_poll"}
    /\ clientClosed
    /\ ~ws.closed
    /\ ws' = [ws EXCEPT !.closed = TRUE]
    /\ UNCHANGED <<pc, req, client, rw, upstream, content, err,
                   connectionExists, observer, clientClosed, inbound,
                   presenceResults, returned,
                   closedAt>>

----------------------------------------------------------------------------
Next ==
    \/ ServeEventSourceBegin
    \/ EventSourceSyncReturn
    \/ EventSourceCheck
    \/ EventSourceCall
    \/ ClientClose
    \/ Observer
    \/ ServeStreamBegin
    \/ StreamPresenceReturn
    \/ StreamSyncReturn
    \/ StreamUpgrade
    \/ StreamSendMessage
    \/ StreamStart
    \/ StreamLoopPoll
    \/ StreamLoopReturn
    \/ StreamInbound
    \/ StreamRemoteClose

Spec == Init /\ [][Next]_vars

\* the steps of one connection to /events
EventSourceNext ==
    \/ ServeEventSourceBegin
    \/ EventSourceSyncReturn
    \/ EventSourceCheck
    \/ EventSourceCall
    \/ ClientClose
    \/ Observer

\* a connection to /events under the scheduling its termination relies on:
\* the observer goroutine and the loop are scheduled, and every sync call
\* returns
FairSpec ==
    /\ Init
    /\ [][EventSourceNext]_vars
    /\ WF_vars(Observer)
    /\ WF_vars(EventSourceSyncReturn)
    /\ WF_vars(EventSourceCheck)
    /\ WF_vars(EventSourceCall)

----------------------------------------------------------------------------
(* Properties *)

\* the handler has resolved a credential and built the session
Resolved == upstream # <<>>

HasBearerPrefix(h) == Len(h) >= 7 /\ SubSeq(h, 1, 7) = Bearer

\* tok is the header value h, as it is or with its bearer prefix removed
FromHeader(tok, h) ==
    \/ tok = h
    \/ HasBearerPrefix(h) /\ tok = SubSeq(h, 8, Len(h))

\* the single chunk an error response's body consists of
ErrorBody(text) == <<Chunk("body", text, NilBytes)>>

\* the data lines written to the event stream, in order
DataLines == SelectSeq(rw.body, LAMBDA ch : ch.line = "data")

\* C1: a request whose method is not GET, on /stream or /events, is answered
\* with status 405 and the handler ends without any upstream call (no sync,
\* no presence update).
C1_NonGetRejected ==
    (pc # "idle" /\ req.method # "GET") =>
        /\ pc = "done"
        /\ rw.wroteHeader
        /\ rw.status = StatusMethodNotAllowed
        /\ upstream = <<>>
        /\ ~ws.upgraded

C1_Witness ==
    /\ pc = "done"
    /\ req.method = "POST"
    /\ req.endpoint = "events"
    /\ rw.status = StatusMethodNotAllowed

\* C2: on /stream, when the initial sync fails a plain HTTP error response is
\* written, the upgrade is never attempted, no frame is sent and the bridge
\* loop is never started; the upgrade is reached only with a successful sync.
C2_NoUpgradeAfterFailedSync ==
    /\ (/\ req.endpoint = "stream"
        /\ Len(returned) = 1
        /\ IsError(returned[1])) =>
            /\ pc = "done"
            /\ rw.wroteHeader
            /\ rw.status # StatusOK
            /\ Len(rw.body) = 1
            /\ ~ws.upgraded
            /\ ws.frames = <<>>
            /\ ~ws.started
            /\ LongPolls = <<>>
    /\ (pc = "st_upgrade" \/ ws.upgraded) =>
            (Len(returned) >= 1 /\ ~IsError(returned[1]))

C2_Witness ==
    /\ req.endpoint = "stream"
    /\ pc = "done"
    /\ Len(returned) = 1
    /\ returned[1] = SyncOtherError
    /\ rw.status = StatusInternalServerError

\* C3: when the initial sync fails with a structured (business) error or a
\* transport error of status S, content type T and body D, both endpoints
\* answer with exactly S, T and D, and /events emits no event and issues no
\* long-poll.
C3_ErrorRelayedVerbatim ==
    (Len(returned) = 1 /\ returned[1].kind \in {"matrix", "http"}) =>
        /\ pc = "done"
        /\ rw.wroteHeader
        /\ rw.status = returned[1].status
        /\ rw.sent["Content-Type"] = returned[1].ctype
        /\ rw.body = ErrorBody(returned[1].body)
        /\ DataLines = <<>>
        /\ LongPolls = <<>>

C3_Witness ==
    /\ req.endpoint = "events"
    /\ Len(returned) = 1
    /\ returned[1] = SyncMatrixError
    /\ rw.status = 403
    /\ rw.sent["Content-Type"] = "application/json"

\* C4 (as claimed): when a request carries both an Authorization header
\* credential and a different access_token parameter, the credential resolved
\* for the session is the header's value and the parameter is not used.
C4_HeaderWins ==
    (/\ pc # "idle"
     /\ req.method = "GET"
     /\ req.flusher
     /\ req.authorization # <<>>
     /\ req.access_token # <<>>
     /\ req.access_token # req.authorization) =>
        /\ pc # "panicked"
        /\ Resolved
        /\ FromHeader(client.AccessToken, req.authorization)
        /\ client.AccessToken # req.access_token

\* C5 (as claimed): the credential is taken from the Authorization header
\* exactly when the header's value has the bearer prefix; in every other case
\* (header absent, or present without the prefix) the access_token parameter
\* is the resolved credential.
C5_BearerOnly ==
    (/\ pc # "idle"
     /\ req.method = "GET"
     /\ req.flusher) =>
        /\ pc # "panicked"
        /\ Resolved
        /\ IF HasBearerPrefix(req.authorization)
           THEN FromHeader(client.AccessToken, req.authorization)
           ELSE client.AccessToken = req.access_token

\* C6: on /events the session's starting cursor is the last-event-id header
\* whenever that header is non-empty, whatever the since parameter; since is
\* used only when the header is absent or empty.
C6_LastEventIdFirst ==
    (req.endpoint = "events" /\ Len(SyncCalls) >= 1) =>
        /\ ~SyncCalls[1].wait
        /\ (req.last_event_id # "" =>
                SyncCalls[1].since = req.last_event_id)
        /\ (req.last_event_id = "" => SyncCalls[1].since = req.since)

C6_Witness ==
    /\ req.endpoint = "events"
    /\ req.last_event_id = "e0"
    /\ req.since = "q0"
    /\ Len(SyncCalls) >= 1
    /\ SyncCalls[1].since = "e0"

\* the cursor the k-th sync call returned
ReturnedCursor(k) == returned[k].payload["next_batch"].v

\* C7: after a successful initial sync returning cursor B the first frame
\* (/stream) or event (/events, in its id line) carries B, and the next sync
\* request of the bridge is a long-poll with cursor exactly B, issued after
\* that first frame or event.
C7_FirstCursorCarried ==
    (Len(returned) >= 1 /\ ~IsError(returned[1])) =>
        /\ (req.endpoint = "events" =>
                /\ Len(rw.body) >= 3
                /\ rw.body[1] = Chunk("id", ReturnedCursor(1), NilBytes)
                /\ rw.body[2] = Chunk("event", "sync", NilBytes)
                /\ rw.body[3].line = "data")
        /\ (req.endpoint = "stream" /\ Len(ws.frames) >= 1 =>
                /\ ~ws.frames[1].nil
                /\ ws.frames[1].obj["next_batch"].v = ReturnedCursor(1))
        /\ (Len(SyncCalls) >= 2 =>
                /\ SyncCalls[2].wait
                /\ SyncCalls[2].since = ReturnedCursor(1)
                /\ (req.endpoint = "stream" => Len(ws.frames) >= 1))

C7_Witness ==
    /\ req.endpoint = "events"
    /\ req.since = "q0"
    /\ Len(returned) = 1
    /\ ~IsError(returned[1])
    /\ ReturnedCursor(1) = "s2"
    /\ rw.body[1].text = "s2"
    /\ Len(SyncCalls) = 2
    /\ SyncCalls[2].since = "s2"

\* C8 (as claimed): no data line of the event stream contains a cursor
\* field: the JSON after "data:" has no next_batch key at all.
C8_NoCursorKey ==
    \A i \in DOMAIN DataLines :
        DataLines[i].bytes.nil
        \/ "next_batch" \notin DOMAIN DataLines[i].bytes.obj

\* the top-level fields of a payload other than the cursor
NonCursorFields(obj) == DOMAIN obj \ {"next_batch"}

\* C9 (as claimed): the data of the k-th event holds exactly the non-cursor
\* top-level fields of the k-th payload, known or unknown, each with the
\* value the homeserver sent: none dropped, none added, none changed.
C9_FieldsPreserved ==
    \A k \in DOMAIN DataLines :
        LET in  == returned[k].payload
            out == DataLines[k].bytes
        IN  /\ ~out.nil
            /\ NonCursorFields(out.obj) = NonCursorFields(in)
            /\ \A f \in NonCursorFields(in) : out.obj[f] = in[f]

\* C10 (as claimed): on /events, in every interleaving, once the observer
\* has recorded the closure no further long-poll is started.
C10_NoPollAfterClosure ==
    [][(req.endpoint = "events" /\ ~connectionExists) =>
            Len(LongPolls') = Len(LongPolls)]_vars

\* some sync call of the connection has failed
SyncFailed == \E k \in DOMAIN returned : IsError(returned[k])

\* C11: a failed sync, initial or long-poll, is terminal: after the first
\* failure no further upstream call is issued, nothing more is written to
\* the client and the handler stays where it ended (no retry).
C11_FailureIsTerminal ==
    [][SyncFailed =>
        /\ upstream' = upstream
        /\ returned' = returned
        /\ rw' = rw
        /\ ws' = ws
        /\ pc' = pc
        /\ pc = "done"]_vars

C11_Witness ==
    /\ req.endpoint = "events"
    /\ Len(returned) = 2
    /\ ~IsError(returned[1])
    /\ IsError(returned[2])
    /\ Len(DataLines) = 1
    /\ pc = "done"

\* each sync request after the first carries the cursor the previous one
\* returned
CursorHandedOn ==
    \A k \in DOMAIN SyncCalls :
        k > 1 =>
            /\ k - 1 \in DOMAIN returned
            /\ ~IsError(returned[k - 1])
            /\ SyncCalls[k].since = ReturnedCursor(k - 1)

\* C12 (as claimed): each successful cycle's cursor is the cursor of the next
\* request, and once the cursor has advanced no two consecutive sync requests
\* carry the same cursor, whatever cursors the homeserver returns.
C12_NeverSameCursorTwice ==
    /\ CursorHandedOn
    /\ \A k \in DOMAIN SyncCalls :
        k > 2 => SyncCalls[k].since # SyncCalls[k - 1].since

\* C12 (amended): each successful cycle's cursor is the cursor of the next
\* request; two consecutive requests carry the same cursor exactly when the
\* homeserver answered the earlier one with the cursor it was sent.
C12_CursorFollowsUpstream ==
    /\ CursorHandedOn
    /\ \A k \in DOMAIN SyncCalls :
        k > 1 =>
            (SyncCalls[k].since = SyncCalls[k - 1].since
                <=> ReturnedCursor(k - 1) = SyncCalls[k - 1].since)

C12_Witness ==
    /\ req.endpoint = "events"
    /\ Len(SyncCalls) = 3
    /\ SyncCalls[2].since = "s1"
    /\ SyncCalls[3].since = "s1"
    /\ ReturnedCursor(2) = "s1"

\* the body http.Error writes for status 500
InternalErrorChunk ==
    Chunk("body", StatusText(StatusInternalServerError), NilBytes)

\* the last sync failed with an error that is neither *MatrixError nor
\* *HttpError
UnclassifiedFailure ==
    /\ returned # <<>>
    /\ returned[Len(returned)].kind = "other"

\* C13 (as claimed): every sync failure that is neither a business nor a
\* transport error is answered, on both endpoints, with status 500 and a
\* static body that does not depend on the failure.
C13_Always500 ==
    UnclassifiedFailure =>
        /\ rw.wroteHeader
        /\ rw.status = StatusInternalServerError
        /\ rw.body[Len(rw.body)] = InternalErrorChunk

\* C13 (amended): a failure of the initial sync that is neither a business
\* nor a transport error is answered, on both endpoints, with status 500 and
\* the static body; such a failure of a later long-poll on /events leaves the
\* status already sent (200) and appends the same static body to the stream.
\* Nothing of the failure's content reaches the client.
C13_Initial500 ==
    UnclassifiedFailure =>
        /\ pc = "done"
        /\ Len(returned) = 1 =>
                /\ rw.wroteHeader
                /\ rw.status = StatusInternalServerError
                /\ rw.sent["Content-Type"] = "text/plain; charset=utf-8"
                /\ rw.body = <<InternalErrorChunk>>
        /\ (Len(returned) > 1 /\ req.endpoint = "events") =>
                /\ rw.status = StatusOK
                /\ rw.sent["Content-Type"] = "text/event-stream"
                /\ rw.body[Len(rw.body)] = InternalErrorChunk
        /\ \A i \in DOMAIN rw.body :
                rw.body[i].text # returned[Len(returned)].body

C13_Witness ==
    /\ req.endpoint = "stream"
    /\ returned = <<SyncOtherError>>
    /\ rw.status = StatusInternalServerError
    /\ rw.body = <<InternalErrorChunk>>

\* C14: on /stream the handshake runs in this order: initial sync, upgrade,
\* the payload of that sync as the first outbound frame (unmodified, cursor
\* inline), start of the bridge loop; no long-poll is issued before the first
\* frame has been handed to the transport.
C14_HandshakeOrder ==
    req.endpoint = "stream" =>
        /\ (pc \in {"st_upgrade", "st_send"} \/ ws.upgraded) =>
                (Len(returned) >= 1 /\ ~IsError(returned[1]))
        /\ ws.upgraded =>
                ws.subprotocol = NegotiateSubprotocol(req.protocols)
        /\ ws.frames # <<>> =>
                /\ ws.upgraded
                /\ ws.frames[1] = Bytes(returned[1].payload)
                /\ "next_batch" \in DOMAIN ws.frames[1].obj
        /\ pc = "st_send" => (ws.frames = <<>> /\ LongPolls = <<>>)
        /\ ws.started => ws.frames # <<>>
        /\ LongPolls # <<>> => (ws.started /\ ws.frames # <<>>)

C14_Witness ==
    /\ req.endpoint = "stream"
    /\ pc = "st_poll"
    /\ Len(returned) = 1
    /\ Len(LongPolls) = 1
    /\ ws.frames = <<Bytes(Payload("s1", RestUnknown))>>

\* C15 (as claimed): on /events a successful payload that cannot be decoded
\* while being rewritten ends the bridge as an internal error: the fixed
\* generic failure is written, no event is emitted for that cycle and no
\* further long-poll is issued.
C15_DecodeFailureIsTerminal ==
    \A k \in DOMAIN returned :
        (/\ req.endpoint = "events"
         /\ ~IsError(returned[k])
         /\ UnmarshalFails(returned[k].payload)) =>
            /\ pc = "done"
            /\ Len(returned) = k
            /\ Len(SyncCalls) = k
            /\ Len(DataLines) = k - 1
            /\ rw.body[Len(rw.body)] = InternalErrorChunk

\* the error response serveStream writes for the failed initial sync e
StreamErrorResponse(e) == WriteSyncError(NewResponseWriter, e)

\* C16: a failed presence update does not affect the bridge: on /stream,
\* whether the presence update before the handshake succeeds or fails, the
\* initial sync is issued and the sync result alone decides between upgrade
\* and HTTP error.
C16_PresenceFailureIgnored ==
    (req.endpoint = "stream" /\ presenceResults # <<>>) =>
        /\ Len(SyncCalls) >= 1
        /\ SyncCalls[1] = SyncCall(
                [client EXCEPT !.NextSyncBatch = req.since], FALSE)
        /\ returned # <<>> =>
                IF IsError(returned[1])
                THEN /\ pc = "done"
                     /\ ~ws.upgraded
                     /\ rw = StreamErrorResponse(returned[1])
                ELSE \/ pc = "st_upgrade"
                     \/ ws.upgraded
                     \/ err = HandshakeError

C16_Witness ==
    /\ req.endpoint = "stream"
    /\ presenceResults = <<FALSE>>
    /\ ws.upgraded
    /\ ws.frames # <<>>

\* C17 (as claimed): when the Authorization header is "Bearer " followed by
\* a token T, the credential stored in the session and sent upstream is
\* exactly T, on both endpoints.
C17_BearerPrefixRemoved ==
    (Resolved /\ HasBearerPrefix(req.authorization)) =>
        /\ client.AccessToken =
                SubSeq(req.authorization, 8, Len(req.authorization))
        /\ upstream[1].access_token = client.AccessToken

\* C18 (as claimed): for every non-empty Authorization header value, of any
\* length, credential resolution completes and the handler goes on to its
\* upstream calls; no header value makes the handler fault.
C18_NoFaultOnAnyHeader ==
    (/\ pc # "idle"
     /\ req.method = "GET"
     /\ req.flusher
     /\ req.authorization # <<>>) =>
        /\ pc # "panicked"
        /\ Resolved

\* after the observer has recorded the closure at most one more event is
\* written
AtMostOneMoreEvent ==
    closedAt >= 0 => Len(DataLines) <= closedAt + 1

UpgradeFailed == req.endpoint = "stream" /\ err = HandshakeError

\* C20: on /stream, when the upgrade fails after a successful initial sync,
\* the handler ends without sending a frame, without starting the bridge
\* loop and without any further upstream call.
C20_FailedUpgradeEnds ==
    UpgradeFailed =>
        /\ pc = "done"
        /\ Len(returned) = 1
        /\ ~IsError(returned[1])
        /\ ~ws.upgraded
        /\ ws.frames = <<>>
        /\ ~ws.started
        /\ LongPolls = <<>>
        /\ Len(SyncCalls) = 1
        /\ Len(upstream) = 2

C20_Witness ==
    /\ UpgradeFailed
    /\ pc = "done"
    /\ ~IsError(returned[1])
    /\ ~content.nil

====
